---- MODULE Spec2Model ----
(***************************************************************************)
(* A model of src/app.py: the Flask image-generator service with its       *)
(* AppMetrics collector, the monitor_performance / log_request_details     *)
(* decorators and the /generate, /convert_html_to_pdf, /stats and /health  *)
(* routes.  Strings are sequences of one-character strings.  Wall-clock    *)
(* durations are abstracted to the set Durations.  A request body is a     *)
(* JSON object; a body that is not an object or does not parse is not      *)
(* modelled.                                                               *)
(***************************************************************************)
EXTENDS Integers, Sequences, FiniteSets, TLC

\* ------------------------------------------------------------------ bounds
\* Requests handled in one run of the sequential service.
MaxRequests == 2
\* Worker threads of the concurrent service, one request each.
NThreads == 2

\* ------------------------------------------------------- characters, GUIDs
Digits == {"0", "1", "2", "3", "4", "5", "6", "7", "8", "9"}
HexLower == Digits \cup {"a", "b", "c", "d", "e", "f"}
HexUpper == Digits \cup {"A", "B", "C", "D", "E", "F"}
Hex == HexLower \cup HexUpper

\* str.lower() on one character, as re.IGNORECASE folds it.
Lower(c) ==
    CASE c = "A" -> "a" [] c = "B" -> "b" [] c = "C" -> "c" [] c = "D" -> "d"
      [] c = "E" -> "e" [] c = "F" -> "f" [] c = "G" -> "g" [] OTHER -> c

\* The regular expression, item by item: a character class and a repeat count.
GUID_PATTERN ==
    << [cls |-> HexLower, n |-> 8], [cls |-> {"-"}, n |-> 1],
       [cls |-> HexLower, n |-> 4], [cls |-> {"-"}, n |-> 1],
       [cls |-> {"1", "2", "3", "4", "5"}, n |-> 1], [cls |-> HexLower, n |-> 3],
       [cls |-> {"-"}, n |-> 1],
       [cls |-> {"8", "9", "a", "b"}, n |-> 1], [cls |-> HexLower, n |-> 3],
       [cls |-> {"-"}, n |-> 1],
       [cls |-> HexLower, n |-> 12] >>

Rep(x, n) == [i \in 1..n |-> x]

RECURSIVE Expand(_)
\* The pattern as one class per character position.
Expand(p) ==
    IF p = <<>> THEN <<>> ELSE Rep(Head(p).cls, Head(p).n) \o Expand(Tail(p))

\* "$" without re.MULTILINE: at the end of the string, or just before a
\* newline that is the last character of the string.
AtDollar(s, n) ==
    \/ Len(s) = n
    \/ Len(s) = n + 1 /\ s[n + 1] = "\n"

\* The same matcher compiled without re.IGNORECASE.
GUID_REGEX_match_case_sensitive(s) ==
    LET cls == Expand(GUID_PATTERN)
    IN  /\ Len(s) >= Len(cls)
        /\ \A i \in 1..Len(cls) : s[i] \in cls[i]
        /\ AtDollar(s, Len(cls))

\* GUID_REGEX.match(s) for a str s: anchored at the start, every position in
\* its class after case folding, then "$".
GUID_REGEX_match(s) ==
    LET cls == Expand(GUID_PATTERN)
    IN  /\ Len(s) >= Len(cls)
        /\ \A i \in 1..Len(cls) : Lower(s[i]) \in cls[i]
        /\ AtDollar(s, Len(cls))

\* ------------------------------------------------------------- JSON values
Absent == [t |-> "absent", s |-> <<>>]   \* key not in the body: .get() gives None
Null == [t |-> "null", s |-> <<>>]       \* JSON null: None
Num == [t |-> "num", s |-> <<>>]         \* a non-zero JSON number
Str(s) == [t |-> "str", s |-> s]

IsNone(v) == v.t \in {"absent", "null"}
\* Python truthiness, as all([...]) and "not x" test it.
Truthy(v) == v.t = "num" \/ (v.t = "str" /\ v.s # <<>>)

\* A GUID text with fill character f, version character v, variant character r.
Guid(f, v, r) ==
    Rep(f, 8) \o <<"-">> \o Rep(f, 4) \o <<"-">> \o <<v>> \o Rep(f, 3) \o <<"-">>
      \o <<r>> \o Rep(f, 3) \o <<"-">> \o Rep(f, 12)


VARIABLES
    app_metrics,        \* the process-wide AppMetrics object
    AZURE_STORAGE_KEY,  \* os.getenv("AZURE_STORAGE_KEY"): "None" when unset
    th,                 \* per worker thread: where it is in monitor_performance
    first,              \* the first /generate request handled and its outcome
    stats_out,          \* the /stats or /health response just returned
    guid_in, guid_ok,   \* a request_id text and the verdict of the GUID check
    job                 \* the Job Poller's view of one submitted job

vars == <<app_metrics, AZURE_STORAGE_KEY, th, first, stats_out, guid_in, guid_ok, job>>

\* ------------------------------------------------------------ request data
ValidLower == Guid("a", "4", "8")
NilGuid == Guid("0", "0", "0")

\* request_id values a client can send (the GUID check's own cases are drawn
\* from GuidTexts below).
RequestIds ==
    { Absent, Null, Str(<<>>), Num, Str(ValidLower), Str(NilGuid),
      Str(ValidLower \o <<"\n">>) }

Prompts == { Absent, Null, Str(<<>>), Str(<<"c", "a", "t">>) }
Htmls == { Absent, Str(<<>>), Str(<<"<", "p", ">">>) }

\* Elapsed seconds of one request, as time.time() differences.
Durations == {0, 1}

\* Clients send Content-Type: application/json, so request.is_json holds.
GenerateRequests ==
    [ endpoint : {"generate_image"}, request_id : RequestIds, prompt : Prompts,
      html : {Absent}, is_json : {TRUE}, render_ok : {TRUE} ]

\* render_ok: whether makedirs and weasyprint's write_pdf succeed, for the
\* requests that get as far as rendering.
ConvertRequests ==
    { r \in [ endpoint : {"convert_html_to_pdf"}, request_id : RequestIds,
              prompt : {Absent}, html : Htmls, is_json : {TRUE},
              render_ok : BOOLEAN ] :
        r.render_ok \/ (r.request_id.t = "str" /\ Truthy(r.html)
                          /\ GUID_REGEX_match(r.request_id.s)) }

Requests == GenerateRequests \cup ConvertRequests

\* ---------------------------------------------------------------- results
\* What a view function does: the (body, status code) it returns or the
\* exception it raises, the error types it passes to record_error, and the
\* calls it makes on the file system and on the Blob Uploader.
Return(code, status, message, recorded, effects) ==
    [ code |-> code, status |-> status, message |-> message, raised |-> "",
      recorded |-> recorded, effects |-> effects ]

\* An uncaught exception: Flask answers 500 without the JSON envelope.
Raise(exc, effects) ==
    [ code |-> 500, status |-> "unhandled", message |-> exc, raised |-> exc,
      recorded |-> <<>>, effects |-> effects ]

NoResult == Return(0, "", "", <<>>, <<>>)

\* ------------------------------------------------------------------ utils
check_api_configuration ==
    IF AZURE_STORAGE_KEY \in {"None", ""} THEN <<"AZURE_STORAGE_KEY">> ELSE <<>>

\* ----------------------------------------------------------------- routes
generate_image(data) ==
    LET rid == data.request_id
        prompt == data.prompt
        missing_config == check_api_configuration
    IN  IF prompt.t # "str"
        THEN Raise("TypeError", <<>>)                 \* prompt[:100] in the log line
        ELSE IF ~(Truthy(rid) /\ Truthy(prompt))
        THEN Return(400, "error", "Missing request_id or prompt",
                    <<"VALIDATION_ERROR">>, <<>>)
        ELSE IF rid.t # "str"
        THEN Raise("TypeError", <<>>)                 \* GUID_REGEX.match(5)
        ELSE IF ~GUID_REGEX_match(rid.s)
        THEN Return(400, "error", "request_id must be a valid GUID",
                    <<"VALIDATION_ERROR">>, <<>>)
        ELSE IF missing_config # <<>>
        THEN Return(503, "error", "Service configuration incomplete",
                    <<"CONFIG_ERROR">>, <<>>)
        ELSE Return(200, "info",
                    "Image generation would proceed here (API keys needed)",
                    <<>>, <<>>)

\* A second request with a request_id already handled is turned away.
log_request_details_dedup(data) ==
    IF first # <<>> /\ first[1].req.request_id = data.request_id
                    /\ app_metrics.request_count > first[1].n
    THEN Return(409, "error", "duplicate request_id", <<>>, <<>>)
    ELSE IF data.is_json /\ data.prompt.t \in {"null", "num"}
    THEN Raise("TypeError", <<>>)
    ELSE generate_image(data)

\* The decorator around generate_image: len(data.get("prompt", "")) on a JSON
\* request, then the view.
log_request_details(data) ==
    IF data.is_json /\ data.prompt.t \in {"null", "num"}
    THEN Raise("TypeError", <<>>)
    ELSE generate_image(data)

convert_html_to_pdf(data) ==
    LET rid == data.request_id
        html_content == data.html
    IN  IF ~Truthy(rid) \/ ~Truthy(html_content)
        THEN Return(400, "error", "Missing request_id or html",
                    <<"VALIDATION_ERROR">>, <<>>)
        ELSE IF rid.t # "str"
        THEN Raise("TypeError", <<>>)
        ELSE IF ~GUID_REGEX_match(rid.s)
        THEN Return(400, "error", "request_id must be a valid GUID",
                    <<"VALIDATION_ERROR">>, <<>>)
        ELSE IF ~data.render_ok
        THEN Return(500, "error", "render failed", <<"PDF_ERROR">>,
                    <<"makedirs", "write_pdf">>)
        ELSE Return(200, "success", "pdf_blob_url", <<>>,
                    <<"makedirs", "write_pdf", "upload_blob">>)

\* func(*args, **kwargs) inside monitor_performance.
View(data) ==
    IF data.endpoint = "generate_image"
    THEN log_request_details(data)
    ELSE convert_html_to_pdf(data)


\* ------------------------------------------------------------- AppMetrics
MAXLEN == 100
EndpointKeys == {"POST generate_image", "POST convert_html_to_pdf"}
ErrorTypes == {"VALIDATION_ERROR", "CONFIG_ERROR", "PDF_ERROR", "TypeError"}

\* AppMetrics.__init__ (the defaultdicts read 0 for a key never touched).
NewMetrics ==
    [ request_count |-> 0,
      total_requests |-> [k \in EndpointKeys |-> 0],
      response_times |-> <<>>,
      error_count |-> [k \in ErrorTypes |-> 0],
      successful_generations |-> 0,
      failed_generations |-> 0 ]

\* deque(maxlen=MAXLEN).append: the oldest entry falls out of a full deque.
deque_append(q, x) ==
    IF Len(q) >= MAXLEN THEN Tail(q) \o <<x>> ELSE Append(q, x)

\* A counter of the metrics object: a field, and a key for the two dicts.
Ctr(f, k) == [f |-> f, k |-> k]

Get(m, c) ==
    CASE c.f = "request_count" -> m.request_count
      [] c.f = "successful_generations" -> m.successful_generations
      [] c.f = "failed_generations" -> m.failed_generations
      [] c.f = "total_requests" -> m.total_requests[c.k]
      [] c.f = "error_count" -> m.error_count[c.k]

Set(m, c, v) ==
    CASE c.f = "request_count" -> [m EXCEPT !.request_count = v]
      [] c.f = "successful_generations" -> [m EXCEPT !.successful_generations = v]
      [] c.f = "failed_generations" -> [m EXCEPT !.failed_generations = v]
      [] c.f = "total_requests" -> [m EXCEPT !.total_requests[c.k] = v]
      [] c.f = "error_count" -> [m EXCEPT !.error_count[c.k] = v]

\* record_request: the counters it increments, in order.
record_request(endpoint) ==
    << Ctr("request_count", ""),
       Ctr("total_requests", IF endpoint = "generate_image"
                             THEN "POST generate_image"
                             ELSE "POST convert_html_to_pdf") >>

RECURSIVE record_errors(_)
\* record_error, once per error type of the sequence.
record_errors(types) ==
    IF types = <<>> THEN <<>>
    ELSE <<Ctr("error_count", Head(types))>> \o record_errors(Tail(types))

\* The wrapper's exit counts every answered request as a failure.
exit_counters_by_status(result) ==
    IF result.code >= 400
    THEN <<Ctr("failed_generations", "")>>
           \o (IF result.raised # "" THEN record_errors(<<result.raised>>) ELSE <<>>)
    ELSE <<Ctr("successful_generations", "")>>

\* The counters monitor_performance increments after func returned or raised:
\* record_response_time(duration, success), and record_error in the except arm.
exit_counters(result) ==
    IF result.raised = ""
    THEN <<Ctr("successful_generations", "")>>
    ELSE <<Ctr("failed_generations", "")>> \o record_errors(<<result.raised>>)

\* ---------------------------------------------------------------- threads
Threads == 1..NThreads

NoRequest ==
    [ endpoint |-> "", request_id |-> Absent, prompt |-> Absent, html |-> Absent,
      is_json |-> FALSE, render_ok |-> TRUE ]

IdleThread ==
    [ phase |-> "idle", req |-> NoRequest, todo |-> <<>>, tmp |-> -1,
      result |-> NoResult ]

InFlight(t) == th[t].phase \in {"enter", "handler", "exit"}

\* The state after MAXLEN - 1 requests POST /generate {request_id: "", prompt:
\* "cat"}, each answered 400 within the clock's resolution.
WarmRequest ==
    [ endpoint |-> "generate_image", request_id |-> Str(<<>>),
      prompt |-> Str(<<"c", "a", "t">>), html |-> Absent, is_json |-> TRUE,
      render_ok |-> TRUE ]

WarmCount == MAXLEN - 1

WarmMetrics ==
    [ request_count |-> WarmCount,
      total_requests |-> [k \in EndpointKeys |->
                            IF k = "POST generate_image" THEN WarmCount ELSE 0],
      response_times |-> Rep(0, WarmCount),
      error_count |-> [k \in ErrorTypes |->
                         IF k = "VALIDATION_ERROR" THEN WarmCount ELSE 0],
      successful_generations |-> WarmCount,
      failed_generations |-> 0 ]

\* Requests begun since the run's first state.
Handled ==
    IF app_metrics.request_count >= WarmCount
    THEN app_metrics.request_count - WarmCount
    ELSE app_metrics.request_count


\* -------------------------------------------------- monitor_performance
\* wrapper(): entry. record_request's increments are queued as the thread's
\* next steps.
Begin(t, r) ==
    /\ th[t].phase \in {"idle", "done"}
    /\ th' = [th EXCEPT ![t] = [ phase |-> "enter", req |-> r,
                                 todo |-> record_request(r.endpoint),
                                 tmp |-> -1, result |-> NoResult ]]
    /\ stats_out' = <<>>
    /\ UNCHANGED <<app_metrics, AZURE_STORAGE_KEY, first, guid_in, guid_ok, job>>

\* "x += 1", first half: load the counter.
Read(t) ==
    /\ th[t].todo # <<>>
    /\ th[t].tmp = -1
    /\ th' = [th EXCEPT ![t].tmp = Get(app_metrics, Head(th[t].todo))]
    /\ UNCHANGED <<app_metrics, AZURE_STORAGE_KEY, first, stats_out, guid_in,
                   guid_ok, job>>

\* "x += 1", second half: store the loaded value plus one.
Write(t) ==
    /\ th[t].todo # <<>>
    /\ th[t].tmp # -1
    /\ app_metrics' = Set(app_metrics, Head(th[t].todo), th[t].tmp + 1)
    /\ th' = [th EXCEPT ![t].tmp = -1, ![t].todo = Tail(th[t].todo)]
    /\ UNCHANGED <<AZURE_STORAGE_KEY, first, stats_out, guid_in, guid_ok, job>>

\* result = func(*args, **kwargs): the view runs; the record_error calls it
\* makes are queued.
Call(t) ==
    /\ th[t].phase = "enter"
    /\ th[t].todo = <<>>
    /\ LET result == View(th[t].req)
       IN  /\ th' = [th EXCEPT ![t].phase = "handler", ![t].result = result,
                               ![t].todo = record_errors(result.recorded)]
           /\ first' = IF first = <<>> /\ th[t].req.endpoint = "generate_image"
                       THEN << [ req |-> th[t].req, result |-> result,
                                 n |-> app_metrics.request_count ] >>
                       ELSE first
    /\ UNCHANGED <<app_metrics, AZURE_STORAGE_KEY, stats_out, guid_in, guid_ok, job>>

\* The view returned or raised: record_response_time appends the duration
\* (deque.append is atomic) and the wrapper's increments are queued.
Exit(t, duration) ==
    /\ th[t].phase = "handler"
    /\ th[t].todo = <<>>
    /\ app_metrics' = [app_metrics EXCEPT
                         !.response_times = deque_append(@, duration)]
    /\ th' = [th EXCEPT ![t].phase = "exit",
                        ![t].todo = exit_counters(th[t].result)]
    /\ UNCHANGED <<AZURE_STORAGE_KEY, first, stats_out, guid_in, guid_ok, job>>

\* "return result" or "raise": the response leaves the wrapper.
Finish(t) ==
    /\ th[t].phase = "exit"
    /\ th[t].todo = <<>>
    /\ th' = [th EXCEPT ![t] = [IdleThread EXCEPT !.phase = "done"]]
    /\ UNCHANGED <<app_metrics, AZURE_STORAGE_KEY, first, stats_out, guid_in,
                   guid_ok, job>>

\* ------------------------------------------------------- /stats, /health
\* get_stats(): stats["status"].
stats_status_le ==
    IF app_metrics.failed_generations <= app_metrics.successful_generations
    THEN "healthy" ELSE "degraded"

stats_status ==
    IF app_metrics.failed_generations < app_metrics.successful_generations
    THEN "healthy" ELSE "degraded"

get_stats ==
    /\ stats_out' = << [ endpoint |-> "stats", code |-> 200, status |-> stats_status,
                         total_requests |-> app_metrics.request_count,
                         successful_generations |-> app_metrics.successful_generations,
                         failed_generations |-> app_metrics.failed_generations ] >>
    /\ UNCHANGED <<app_metrics, AZURE_STORAGE_KEY, th, first, guid_in, guid_ok, job>>

health_check ==
    LET missing_config == check_api_configuration
    IN  /\ stats_out' = << [ endpoint |-> "health",
                             code |-> IF missing_config = <<>> THEN 200 ELSE 503,
                             status |-> IF missing_config = <<>>
                                        THEN "healthy" ELSE "degraded",
                             total_requests |-> app_metrics.request_count,
                             successful_generations |->
                                 app_metrics.successful_generations,
                             failed_generations |-> app_metrics.failed_generations ] >>
        /\ UNCHANGED <<app_metrics, AZURE_STORAGE_KEY, th, first, guid_in, guid_ok, job>>

\* --------------------------------------------- the service, one at a time
NoJob ==
    [ pc |-> "none", status |-> "", elapsed |-> 0, polls |-> 0, poll_at |-> 0,
      cancels |-> 0, error |-> "" ]

EnvValues == {"None", "k3y"}

Init ==
    /\ AZURE_STORAGE_KEY \in EnvValues
    /\ \/ /\ app_metrics = NewMetrics
          /\ first = <<>>
       \/ /\ app_metrics = WarmMetrics
          /\ first = << [ req |-> WarmRequest, result |-> generate_image(WarmRequest),
                          n |-> 1 ] >>
    /\ th = [t \in Threads |-> IdleThread]
    /\ stats_out = <<>>
    /\ guid_in = <<>>
    /\ guid_ok = "unchecked"
    /\ job = NoJob

Quiet == \A t \in Threads : ~InFlight(t)

\* One worker serves the requests one after the other.
Serve ==
    /\ Quiet
    /\ Handled < MaxRequests
    /\ \E r \in Requests : Begin(1, r)

Step ==
    \/ Read(1)
    \/ Write(1)
    \/ Call(1)
    \/ \E d \in Durations : Exit(1, d)
    \/ Finish(1)

Stats == Quiet /\ get_stats

Health == Quiet /\ health_check

Next == Serve \/ Step \/ Stats \/ Health

Spec == Init /\ [][Next]_vars


\* ------------------------------------------- the service, threads at once
\* The requests the concurrent workers are given.
ConcRequests ==
    { r \in Requests :
        /\ r.request_id = Str(ValidLower)
        /\ r.prompt \in {Absent, Str(<<"c", "a", "t">>)}
        /\ r.html \in {Absent, Str(<<"<", "p", ">">>)} }

InitConc ==
    /\ AZURE_STORAGE_KEY \in EnvValues
    /\ app_metrics = NewMetrics
    /\ first = <<>>
    /\ th = [t \in Threads |-> IdleThread]
    /\ stats_out = <<>>
    /\ guid_in = <<>>
    /\ guid_ok = "unchecked"
    /\ job = NoJob

\* Flask's development server is threaded: each thread takes one request.
Accept == \E t \in Threads : th[t].phase = "idle" /\ \E r \in ConcRequests : Begin(t, r)

Load == \E t \in Threads : Read(t)

Store == \E t \in Threads : Write(t)

Run == \E t \in Threads : Call(t)

Leave == \E t \in Threads, d \in Durations : Exit(t, d)

Respond == \E t \in Threads : Finish(t)

NextConc == Accept \/ Load \/ Store \/ Run \/ Leave \/ Respond

SpecConc == InitConc /\ [][NextConc]_vars

\* ------------------------------------------------------ the GUID check
FillChars == {"0", "9", "a", "f", "A", "F", "g", "G", "-"}
VersionChars == {"0", "1", "5", "6", "a", "F", "g"}
VariantChars == {"0", "7", "8", "9", "a", "b", "A", "B", "c", "f"}
Edits == {"none", "trunc", "extra", "nl", "nlnl", "lead", "nohyphen", "hyphen1"}

Edit(s, e) ==
    CASE e = "none" -> s
      [] e = "trunc" -> SubSeq(s, 1, Len(s) - 1)
      [] e = "extra" -> s \o <<"0">>
      [] e = "nl" -> s \o <<"\n">>
      [] e = "nlnl" -> s \o <<"\n", "\n">>
      [] e = "lead" -> <<"\n">> \o s
      [] e = "nohyphen" -> [s EXCEPT ![9] = "0"]
      [] e = "hyphen1" -> [s EXCEPT ![1] = "-"]

\* request_id texts given to the check.
GuidTexts ==
    { Edit(Guid(f, v, r), e) :
        f \in FillChars, v \in VersionChars, r \in VariantChars, e \in Edits }

InitGuid ==
    /\ guid_in \in GuidTexts
    /\ guid_ok = "unchecked"
    /\ AZURE_STORAGE_KEY \in EnvValues
    /\ app_metrics = NewMetrics
    /\ first = <<>>
    /\ th = [t \in Threads |-> IdleThread]
    /\ stats_out = <<>>
    /\ job = NoJob

\* A request with every other field in order: the view turns it away with a
\* validation error exactly when the request_id check fails.
Probe(endpoint) ==
    [ endpoint |-> endpoint, request_id |-> Str(guid_in),
      prompt |-> IF endpoint = "generate_image" THEN Str(<<"c", "a", "t">>) ELSE Absent,
      html |-> IF endpoint = "generate_image" THEN Absent ELSE Str(<<"<", "p", ">">>),
      is_json |-> TRUE, render_ok |-> TRUE ]

Validate(endpoint) ==
    /\ guid_ok = "unchecked"
    /\ LET result == View(Probe(endpoint))
       IN  guid_ok' = IF result.code = 400 THEN "rejected " \o endpoint
                      ELSE "accepted " \o endpoint
    /\ UNCHANGED <<app_metrics, AZURE_STORAGE_KEY, th, first, stats_out, guid_in, job>>

ValidateGenerate == Validate("generate_image")

ValidateConvert == Validate("convert_html_to_pdf")

NextGuid == ValidateGenerate \/ ValidateConvert

SpecGuid == InitGuid /\ [][NextGuid]_vars


\* ------------------------------------------------------------ Job Poller
\* The submit/poll/timeout loop of the variant that calls the Inference API.
POLL_INTERVAL == 2
TIMEOUT_CEILING == 120

\* Time units one status request can take.
Latencies == {0, 1}
\* What GET {base}/status/{id} can report.
Statuses == {"IN_QUEUE", "IN_PROGRESS", "COMPLETED", "FAILED", "CANCELLED"}

\* The loop gives up one time unit early.
timed_out_at_ceiling(elapsed) == elapsed >= TIMEOUT_CEILING

timed_out(elapsed) == elapsed > TIMEOUT_CEILING

InitPoller ==
    /\ job = NoJob
    /\ AZURE_STORAGE_KEY = "k3y"
    /\ app_metrics = NewMetrics
    /\ first = <<>>
    /\ th = [t \in Threads |-> IdleThread]
    /\ stats_out = <<>>
    /\ guid_in = <<>>
    /\ guid_ok = "unchecked"

Others == <<app_metrics, AZURE_STORAGE_KEY, th, first, stats_out, guid_in, guid_ok>>

\* POST {base}/run answered with a job id: the clock starts.
Submit ==
    /\ job.pc = "none"
    /\ job' = [job EXCEPT !.pc = "polling", !.status = "SUBMITTED"]
    /\ UNCHANGED Others

\* POST {base}/run failed or carried no id.
SubmitFails ==
    /\ job.pc = "none"
    /\ job' = [job EXCEPT !.pc = "failed", !.error = "SubmissionError"]
    /\ UNCHANGED Others

\* One status request, issued while the ceiling is not exceeded.
Poll ==
    /\ job.pc = "polling"
    /\ ~timed_out(job.elapsed)
    /\ \E st \in Statuses, lat \in Latencies :
         job' = [job EXCEPT
                   !.polls = @ + 1,
                   !.poll_at = job.elapsed,
                   !.elapsed = @ + lat,
                   !.status = IF st \in {"COMPLETED", "FAILED", "CANCELLED"}
                              THEN st ELSE "SUBMITTED",
                   !.pc = CASE st = "COMPLETED" -> "completed"
                            [] st \in {"FAILED", "CANCELLED"} -> "failed"
                            [] OTHER -> "sleeping",
                   !.error = IF st \in {"FAILED", "CANCELLED"}
                             THEN "GenerationFailedError" ELSE ""]
    /\ UNCHANGED Others

\* sleep(POLL_INTERVAL) between two status requests.
Sleep ==
    /\ job.pc = "sleeping"
    /\ job' = [job EXCEPT !.pc = "polling", !.elapsed = @ + POLL_INTERVAL]
    /\ UNCHANGED Others

\* The ceiling is exceeded: the job is abandoned, no cancellation is sent.
Timeout ==
    /\ job.pc = "polling"
    /\ timed_out(job.elapsed)
    /\ job' = [job EXCEPT !.pc = "failed", !.status = "TIMEOUT",
                          !.error = "TimeoutError"]
    /\ UNCHANGED Others

NextPoller == Submit \/ SubmitFails \/ Poll \/ Sleep \/ Timeout

SpecPoller == InitPoller /\ [][NextPoller]_vars


\* ================================================================ claims
\* The view of thread t has returned or raised for the request th[t].req.
Answered(t) == th[t].phase \in {"handler", "exit"}

RidMatches(r) == r.request_id.t = "str" /\ GUID_REGEX_match(r.request_id.s)

\* A field that is absent, null or empty.
Missing(v) == IsNone(v) \/ v = Str(<<>>)

\* request_id and prompt present and request_id a GUID.
Valid(r) == Truthy(r.request_id) /\ Truthy(r.prompt) /\ RidMatches(r)

Configured == check_api_configuration = <<>>

\* C1: a request whose request_id does not match the GUID pattern is answered
\* with the 400 error envelope, and no file was written and no collaborator
\* called while it was handled.
C1_NonGuidRejectedBeforeAnyCall ==
    \A t \in Threads :
        Answered(t) /\ ~RidMatches(th[t].req)
          => /\ th[t].result.code = 400
             /\ th[t].result.status = "error"
             /\ th[t].result.effects = <<>>

\* 8-4-4-4-12 hexadecimal groups separated by hyphens.
IsHexGroups(s) ==
    /\ Len(s) = 36
    /\ \A i \in 1..36 :
         IF i \in {9, 14, 19, 24} THEN s[i] = "-" ELSE s[i] \in Hex

\* Hexadecimal groups with the version digit 1-5 and the variant digit 8, 9, a, b.
IsVersionedGuid(s) ==
    /\ IsHexGroups(s)
    /\ s[15] \in {"1", "2", "3", "4", "5"}
    /\ s[20] \in {"8", "9", "a", "b", "A", "B"}

GuidAccepted == guid_ok \in {"accepted generate_image", "accepted convert_html_to_pdf"}

\* C2 as stated: the request_id check accepts exactly the strings of 8-4-4-4-12
\* hexadecimal groups, on both endpoints.
C2_AcceptsExactlyHexGroups ==
    guid_ok # "unchecked" => (GuidAccepted <=> IsHexGroups(guid_in))

\* C2 amended: the check accepts exactly the strings of 8-4-4-4-12 hexadecimal
\* groups (either case) whose third group starts with 1-5 and whose fourth
\* group starts with 8, 9, a or b, alone or followed by one final newline.
C2_AcceptsExactlyVersionedGuids ==
    guid_ok # "unchecked"
      => (GuidAccepted <=>
            \/ IsVersionedGuid(guid_in)
            \/ /\ Len(guid_in) = 37
               /\ guid_in[37] = "\n"
               /\ IsVersionedGuid(SubSeq(guid_in, 1, 36)))

\* An upper-case GUID was accepted by /convert_html_to_pdf.
C2_Witness ==
    /\ guid_ok = "accepted convert_html_to_pdf"
    /\ guid_in = Guid("F", "5", "B")

\* C3: a /generate request whose request_id or prompt is absent, null or empty
\* is answered 400 with the error envelope, and the handler does not raise.
C3_MissingFieldAnswered400 ==
    \A t \in Threads :
        /\ Answered(t)
        /\ th[t].req.endpoint = "generate_image"
        /\ Missing(th[t].req.request_id) \/ Missing(th[t].req.prompt)
        => /\ th[t].result.code = 400
           /\ th[t].result.status = "error"
           /\ th[t].result.raised = ""

\* C4: a /generate request is answered 503 exactly when it is valid and a
\* credential is missing, and an invalid one is answered 400 whatever the
\* configuration.
C4_ConfigCheckedAfterValidation ==
    \A t \in Threads :
        Answered(t) /\ th[t].req.endpoint = "generate_image"
          => /\ th[t].result.code = 503 <=> (Valid(th[t].req) /\ ~Configured)
             /\ ~Valid(th[t].req) => th[t].result.code = 400

\* C5: a /generate request that passed validation and the configuration check
\* is answered only after it submitted one job to the Inference API.
C5_ValidRequestSubmitsOneJob ==
    \A t \in Threads :
        /\ Answered(t)
        /\ th[t].req.endpoint = "generate_image"
        /\ Valid(th[t].req)
        /\ Configured
        => Cardinality({ i \in DOMAIN th[t].result.effects :
                           th[t].result.effects[i] = "POST /run" }) = 1

\* C6: the poller fails with TimeoutError only once more than TIMEOUT_CEILING
\* time units have passed since submission; every status request was issued
\* with the ceiling not exceeded, POLL_INTERVAL apart, and no cancellation is
\* sent for the abandoned job.
C6_TimeoutAfterCeilingOnly ==
    /\ job.error = "TimeoutError"
         => /\ job.elapsed > TIMEOUT_CEILING
            /\ job.status = "TIMEOUT"
            /\ job.polls >= 1
    /\ job.polls >= 1 => job.poll_at <= TIMEOUT_CEILING
    /\ job.elapsed >= POLL_INTERVAL * (job.polls - 1)
    /\ job.cancels = 0

\* The job timed out one unit past the ceiling.
C6_Witness ==
    /\ job.error = "TimeoutError"
    /\ job.elapsed = TIMEOUT_CEILING + 1

AllDone == \A t \in Threads : th[t].phase = "done"

\* C8: once all NThreads concurrent requests have completed, request_count and
\* successful_generations + failed_generations both equal NThreads.
C8_NoIncrementLost ==
    AllDone
      => /\ app_metrics.request_count = NThreads
         /\ app_metrics.successful_generations + app_metrics.failed_generations
              = NThreads

Outcomes == app_metrics.successful_generations + app_metrics.failed_generations

\* C9: under sequential handling request_count goes up by one on entry, and on
\* exit failed_generations goes up by one exactly when the view raised and
\* successful_generations otherwise; the two sum to at most request_count, to
\* exactly request_count when no request is in flight, and response_times
\* holds at most MAXLEN entries.
C9_MetricsAccounting ==
    /\ [](/\ Outcomes <= app_metrics.request_count
          /\ Quiet => Outcomes = app_metrics.request_count
          /\ InFlight(1) => Outcomes + 1 >= app_metrics.request_count
          /\ Len(app_metrics.response_times) <= MAXLEN)
    /\ [][/\ app_metrics'.request_count # app_metrics.request_count
               => /\ app_metrics'.request_count = app_metrics.request_count + 1
                  /\ th[1].phase = "enter"
          /\ app_metrics'.failed_generations # app_metrics.failed_generations
               => /\ app_metrics'.failed_generations
                       = app_metrics.failed_generations + 1
                  /\ th[1].phase = "exit"
                  /\ th[1].result.raised # ""
          /\ app_metrics'.successful_generations # app_metrics.successful_generations
               => /\ app_metrics'.successful_generations
                       = app_metrics.successful_generations + 1
                  /\ th[1].phase = "exit"
                  /\ th[1].result.raised = ""
          /\ th[1].phase = "exit" /\ th'[1].phase = "done"
               => Outcomes = app_metrics.request_count]_vars

\* The deque is full and has dropped an entry; one request raised and one was
\* answered with an error envelope.
C9_Witness ==
    /\ Quiet
    /\ app_metrics.request_count = MAXLEN + 1
    /\ Len(app_metrics.response_times) = MAXLEN
    /\ app_metrics.failed_generations = 1
    /\ app_metrics.error_count["PDF_ERROR"] = 1

\* C10: /stats reports "healthy" exactly when failed_generations <
\* successful_generations and "degraded" otherwise, so "degraded" before any
\* request was handled; /stats and /health change no counter.
C10_StatsStatus ==
    /\ [](stats_out # <<>> /\ stats_out[1].endpoint = "stats"
            => /\ stats_out[1].status = "healthy"
                    <=> app_metrics.failed_generations
                          < app_metrics.successful_generations
               /\ stats_out[1].status \in {"healthy", "degraded"}
               /\ stats_out[1].failed_generations = app_metrics.failed_generations
               /\ stats_out[1].successful_generations
                    = app_metrics.successful_generations
               /\ app_metrics.request_count = 0 => stats_out[1].status = "degraded")
    /\ [][stats_out' # <<>> => app_metrics' = app_metrics]_vars

\* /stats reported "degraded" with as many failures as successes.
C10_Witness ==
    /\ stats_out # <<>>
    /\ stats_out[1].endpoint = "stats"
    /\ stats_out[1].status = "degraded"
    /\ app_metrics.failed_generations = 1
    /\ app_metrics.successful_generations = 1

====
